---------------------------- MODULE Spec2Model ----------------------------
(***************************************************************************)
(* A model of TestSSO.cpp: the SSO benchmark of ATL::CStringW against      *)
(* std::wstring.  main builds a corpus of small strings, shuffles it,      *)
(* takes a vector of observing pointers to it, and calls                    *)
(* MeasurePushBackAndSort six times, printing every result with PrintTime. *)
(*                                                                         *)
(* Wide strings are sequences of UTF-16 code units.  A pointer to a         *)
(* string's buffer is the index of the string in `shuffled`; the buffer is *)
(* the string's code units followed by a NUL.  A double is a sign and a    *)
(* fraction num/den, with den = 0 for the infinities (num = 1) and for NaN *)
(* (num = 0).  Standard output is the sequence of the lines written.       *)
(***************************************************************************)
EXTENDS Integers, Sequences, FiniteSets, TLC

(***************************************************************************)
(* Bounds of the model.                                                    *)
(***************************************************************************)
\* The number of strings main builds (200*1000 in the program), scaled down.
CorpusSize == 3
\* The performance counter advances by at most this many ticks in a run.
MaxCounter == 2
\* GenSpec: the largest loop bound of the corpus loop that is explored.
MaxCorpus == 13
\* RunnerSpec: the longest pointer vector handed to the runner.
MaxInputLen == 3
\* TimerSpec: the largest counter value handed to the conversion.
MaxTick == 3

\* Frequencies of the performance counter (ticks per second) that are explored.
Frequencies == {3, 1000}
\* Values an uninitialised LARGE_INTEGER may hold when a query has failed.
Indeterminate == {0 - 1, 0}

VARIABLES
    pc,                 \* the position of main (and of the runner it calls)
    out,                \* standard output: the lines written so far
    exitCode,           \* the exit code of the process, -1 while it runs
    win64,              \* whether the build defines _WIN64
    n,                  \* the bound of the corpus loop (main, line 138)
    i,                  \* the loop index of the loop main or the runner is in
    v,                  \* the vector<wstring> the first lambda builds
    shuffled,           \* main's const vector<wstring>
    pv,                 \* the vector of pointers the second lambda builds
    shuffled_ptrs,      \* main's const vector<const wchar_t*>
    run,                \* the number of the benchmark statement main is at
    arg_ptrs,           \* the runner's by-value parameter shuffled_ptrs
    description,        \* the runner's parameter description
    rv,                 \* the runner's vector<StringT> v
    start,              \* the runner's local start
    finish,             \* the runner's local finish
    push_back_time_ms,  \* the runner's local push_back_time_ms
    sort_time_ms,       \* the runner's local sort_time_ms
    perf_data,          \* the PerfData temporary the runner returned
    qpc,                \* the platform's performance counter
    qpf,                \* the platform's performance frequency
    faults,             \* the faults the environment may still inject
    timerFailed,        \* whether a counter or frequency query has failed
    calls,              \* log: the runner invocations made, <<strategy, label>>
    readings            \* log: the Counter() results of the current invocation

vars == <<pc, out, exitCode, win64, n, i, v, shuffled, pv, shuffled_ptrs, run,
          arg_ptrs, description, rv, start, finish, push_back_time_ms,
          sort_time_ms, perf_data, qpc, qpf, faults, timerFailed, calls,
          readings>>

(***************************************************************************)
(* Wide strings.                                                           *)
(***************************************************************************)
\* L'#'
Hash == 35
\* L'0'
Zero == 48
\* The terminating NUL of a buffer.
NUL == 0

RECURSIVE to_wstring_reversed(_)
\* to_wstring with the digits in the order the divisions produce them, the
\* last digit first.
to_wstring_reversed(k) ==
    IF k < 10 THEN <<Zero + k>>
    ELSE <<Zero + (k % 10)>> \o to_wstring_reversed(k \div 10)

RECURSIVE to_wstring(_)
\* std::to_wstring(int): the decimal text of k, for the k >= 0 main passes.
to_wstring(k) ==
    IF k < 10 THEN <<Zero + k>>
    ELSE to_wstring(k \div 10) \o <<Zero + (k % 10)>>

\* L"#" + to_wstring(k)  (main, line 140)
CorpusElement(k) == <<Hash>> \o to_wstring(k)

\* wstring::c_str(): the buffer, NUL-terminated.
c_str(s) == s \o <<NUL>>

\* The buffer a pointer points to: pointer p is the address of the buffer
\* of shuffled[p].
Buffer(p) == c_str(shuffled[p])

RECURSIVE wcslen(_)
\* The number of code units of a buffer before its first NUL.
wcslen(buf) ==
    IF buf = <<>> \/ Head(buf) = NUL THEN 0 ELSE 1 + wcslen(Tail(buf))

\* StringT(const wchar_t*): the string constructed from a NUL-terminated
\* buffer, for both CStringW and std::wstring  (runner, line 102).
StringFromPtr(p) == SubSeq(Buffer(p), 1, wcslen(Buffer(p)))


(***************************************************************************)
(* The ordering of the two string types, and std::sort.                    *)
(***************************************************************************)
RECURSIVE wcscmp(_, _)
\* wcscmp on two NUL-terminated buffers: negative, zero or positive.
wcscmp(a, b) ==
    IF Head(a) # Head(b) THEN (IF Head(a) < Head(b) THEN 0 - 1 ELSE 1)
    ELSE IF Head(a) = NUL THEN 0
    ELSE wcscmp(Tail(a), Tail(b))

\* ATL::CStringW's operator<: Compare(), which is wcscmp on the two buffers.
CStringLess(a, b) == wcscmp(c_str(a), c_str(b)) < 0

RECURSIVE traits_compare(_, _, _)
\* char_traits<wchar_t>::compare on the first count code units.
traits_compare(a, b, count) ==
    IF count = 0 THEN 0
    ELSE IF Head(a) # Head(b) THEN (IF Head(a) < Head(b) THEN 0 - 1 ELSE 1)
    ELSE traits_compare(Tail(a), Tail(b), count - 1)

\* std::wstring's operator<: compare() < 0, the common prefix first and the
\* lengths after it.
WStringLess(a, b) ==
    LET m == IF Len(a) < Len(b) THEN Len(a) ELSE Len(b)
        r == traits_compare(a, b, m)
    IN  IF r # 0 THEN r < 0 ELSE Len(a) < Len(b)

\* StringLess comparing the lengths before the code units.
StringLessShorterFirst(strategy, a, b) ==
    \/ Len(a) < Len(b)
    \/ Len(a) = Len(b) /\ WStringLess(a, b)

\* operator< of the StringT the runner is instantiated with.
StringLess(strategy, a, b) ==
    IF strategy = "ATL" THEN CStringLess(a, b) ELSE WStringLess(a, b)

RECURSIVE InsertOrdered(_, _, _)
\* One pass of the insertion sort std::sort does on a short range: x moves
\* down from the back of the ordered prefix s while it is less than the
\* element before the hole.
InsertOrdered(strategy, s, x) ==
    IF s = <<>> THEN <<x>>
    ELSE IF StringLess(strategy, x, s[Len(s)])
         THEN InsertOrdered(strategy, SubSeq(s, 1, Len(s) - 1), x) \o <<s[Len(s)]>>
         ELSE s \o <<x>>

RECURSIVE SortPrefix(_, _, _)
\* The first k elements of s, sorted: each in turn is inserted into the
\* ordered range before it.
SortPrefix(strategy, s, k) ==
    IF k = 0 THEN <<>>
    ELSE CHOOSE r \in {InsertOrdered(strategy, p, s[k]) :
                           p \in {SortPrefix(strategy, s, k - 1)}} : TRUE

\* std::sort(v.begin(), v.end())  (runner, line 111).  On longer ranges the
\* library switches to introsort, whose result is the same sequence.
StdSort(strategy, s) == SortPrefix(strategy, s, Len(s))

(***************************************************************************)
(* Doubles and their formatting.                                           *)
(***************************************************************************)
Abs(x) == IF x < 0 THEN 0 - x ELSE x

RECURSIVE Gcd(_, _)
Gcd(a, b) == IF b = 0 THEN a ELSE Gcd(b, a % b)

\* The double 0.0 the PerfData default constructor and the locals start from.
DoubleZero == [neg |-> FALSE, num |-> 0, den |-> 1]

\* x / y in IEEE arithmetic for two integers converted to double: the sign of
\* the quotient is the exclusive or of the signs, a division by zero gives an
\* infinity, and 0/0 gives NaN.  xneg is the sign of x (a zero x may be -0.0).
DoubleDiv(xneg, xmag, y) ==
    LET yneg == y < 0
        ymag == Abs(y)
        g    == Gcd(xmag, ymag)
    IN  IF ymag = 0
        THEN IF xmag = 0 THEN [neg |-> TRUE, num |-> 0, den |-> 0]
             ELSE [neg |-> (xneg # yneg), num |-> 1, den |-> 0]
        ELSE [neg |-> (xneg # yneg), num |-> xmag \div g, den |-> ymag \div g]

\* The conversion with its operands exchanged: (start - finish).
MillisecondsFromSwappedDelta(s, f, frequency) ==
    DoubleDiv(s - f < 0, Abs(s - f) * 1000, frequency)

\* MillisecondsFromDeltaCounter(start, finish), given the value its call of
\* Frequency() returned:  (finish - start) * 1000.0 / Frequency().
MillisecondsFromDeltaCounter(s, f, frequency) ==
    DoubleDiv(f - s < 0, Abs(f - s) * 1000, frequency)

DigitText(d) ==
    CASE d = 0 -> "0" [] d = 1 -> "1" [] d = 2 -> "2" [] d = 3 -> "3"
      [] d = 4 -> "4" [] d = 5 -> "5" [] d = 6 -> "6" [] d = 7 -> "7"
      [] d = 8 -> "8" [] d = 9 -> "9"

RECURSIVE NatText(_)
\* The decimal text of a natural number.
NatText(k) ==
    IF k < 10 THEN DigitText(k) ELSE NatText(k \div 10) \o DigitText(k % 10)

RECURSIVE Pow10(_)
Pow10(k) == IF k = 0 THEN 1 ELSE 10 * Pow10(k - 1)

RECURSIVE Exp10(_, _)
\* The decimal exponent of a/b > 0:  10^X <= a/b < 10^(X+1).
Exp10(a, b) ==
    IF a >= b THEN (IF a \div b >= 10 THEN 1 + Exp10(a, b * 10) ELSE 0)
    ELSE Exp10(a * 10, b) - 1

RECURSIVE ScaledFloor(_, _, _)
\* <<the floor of (a/b) * 10^k, the remainder of that division by b>>, k >= 0,
\* by long division, a digit a step.
ScaledFloor(a, b, k) ==
    IF k = 0 THEN <<a \div b, a % b>>
    ELSE CHOOSE q \in {<<p[1] * 10 + (p[2] * 10) \div b, (p[2] * 10) % b>> :
                           p \in {ScaledFloor(a, b, k - 1)}} : TRUE

\* a/b > 0 with decimal exponent X, rounded to six significant digits (to
\* nearest, ties to even): the six digits as a number, which is 1000000 when
\* the rounding carries into a seventh.
RoundedDigits(a, b, X) ==
    LET p == IF X <= 5 THEN ScaledFloor(a, b, 5 - X)
                       ELSE ScaledFloor(a, b * Pow10(X - 5), 0)
        D == IF X <= 5 THEN b ELSE b * Pow10(X - 5)
    IN  IF 2 * p[2] > D \/ (2 * p[2] = D /\ p[1] % 2 = 1)
        THEN p[1] + 1 ELSE p[1]

\* <<the six digits, the decimal exponent of the first of them>>.
SixDigits(a, b) ==
    IF RoundedDigits(a, b, Exp10(a, b)) = 1000000
    THEN <<100000, Exp10(a, b) + 1>>
    ELSE <<RoundedDigits(a, b, Exp10(a, b)), Exp10(a, b)>>

RECURSIVE FractionText(_, _)
\* The digits of a fraction of the given width, without its trailing zeros.
FractionText(frac, width) ==
    IF frac = 0 THEN ""
    ELSE DigitText(frac \div Pow10(width - 1))
             \o FractionText(frac % Pow10(width - 1), width - 1)

\* Six digits M with decimal exponent X in the style %e: d.ddddde+XX,
\* trailing zeros removed.
ScientificText(M, X) ==
    DigitText(M \div 100000)
        \o (IF M % 100000 = 0 THEN "" ELSE "." \o FractionText(M % 100000, 5))
        \o "e" \o (IF X < 0 THEN "-" ELSE "+")
        \o (IF Abs(X) < 10 THEN "0" ELSE "") \o NatText(Abs(X))

\* Six digits M with decimal exponent X in the style %f with 5 - X decimals,
\* trailing zeros removed.
FixedText(M, X) ==
    NatText(M \div Pow10(5 - X))
        \o (IF M % Pow10(5 - X) = 0 THEN ""
            ELSE "." \o FractionText(M % Pow10(5 - X), 5 - X))

\* The style %g with precision 6 chooses for digits sd[1] and exponent sd[2].
DigitsText(sd) ==
    IF sd[2] < 0 - 4 \/ sd[2] >= 6
    THEN ScientificText(sd[1], sd[2]) ELSE FixedText(sd[1], sd[2])

\* printf's %g with precision 6 on a/b > 0, which is what operator<< of a
\* double does on a stream in its default state.
GeneralText(a, b) ==
    CHOOSE text \in {DigitsText(sd) : sd \in {SixDigits(a, b)}} : TRUE

\* cout << d for a double d  (PrintTime, lines 74 and 75).
FormatDouble(d) ==
    IF d.den = 0
    THEN IF d.num = 0 THEN "-nan(ind)"
         ELSE (IF d.neg THEN "-" ELSE "") \o "inf"
    ELSE (IF d.neg THEN "-" ELSE "")
             \o (IF d.num = 0 THEN "0" ELSE GeneralText(d.num, d.den))

(***************************************************************************)
(* The platform's performance counter.                                     *)
(***************************************************************************)
\* What a call of Counter() may do: QueryPerformanceCounter succeeds, the
\* counter having advanced or not since the last reading, and its value is
\* returned; or, where the environment injects a timer fault, it fails, its
\* result is ignored and the uninitialised li.QuadPart is returned.
CounterOutcomes ==
    {[value |-> q, qpc |-> q, failed |-> FALSE] :
        q \in {qpc} \cup (IF qpc < MaxCounter THEN {qpc + 1} ELSE {})}
    \cup (IF "timer" \in faults
          THEN {[value |-> g, qpc |-> qpc, failed |-> TRUE] : g \in Indeterminate}
          ELSE {})

\* What a call of Frequency() may do, likewise.
FrequencyOutcomes ==
    {[value |-> qpf, failed |-> FALSE]}
    \cup (IF "timer" \in faults
          THEN {[value |-> g, failed |-> TRUE] : g \in Indeterminate}
          ELSE {})

\* The fault budget and the failure flag after an outcome.
AfterQuery(o) ==
    /\ faults' = IF o.failed THEN faults \ {"timer"} ELSE faults
    /\ timerFailed' = (timerFailed \/ o.failed)

(***************************************************************************)
(* main and the code it calls.                                             *)
(***************************************************************************)
\* Runs with the statements grouped by strategy instead of alternating.
RunsGrouped ==
    << <<"ATL", "ATL1">>, <<"ATL", "ATL2">>, <<"ATL", "ATL3">>,
       <<"STL", "STL1">>, <<"STL", "STL2">>, <<"STL", "STL3">>  >>

\* The six benchmark statements of main: <<StringT, description>>.
Runs ==
    << <<"ATL", "ATL1">>, <<"STL", "STL1">>, <<"ATL", "ATL2">>,
       <<"STL", "STL2">>, <<"ATL", "ATL3">>, <<"STL", "STL3">>  >>

\* The StringT of the invocation in progress.
Strategy == Runs[run][1]

\* PerfData(push_back_time_ms, sort_time_ms, description)
PerfData(push, sort, text) ==
    [PushBackTimeMs |-> push, SortTimeMs |-> sort, Description |-> text]

\* The lines main writes before it builds the data.
BannerLines ==
    <<"", "*** SSO Performance Benchmark ***", " by Giovanni Dicanio", "">>
        \o (IF win64 THEN <<"(64-bit)", "">> ELSE <<>>)

\* PrintTimeLines with the two times exchanged.
PrintTimeLinesSwapped(pd) ==
    << pd.Description \o ":",
       "  push_back : " \o FormatDouble(pd.SortTimeMs) \o " ms",
       "  sort      : " \o FormatDouble(pd.PushBackTimeMs) \o " ms",
       "" >>

\* The lines PrintTime writes for a PerfData.
PrintTimeLines(pd) ==
    << pd.Description \o ":",
       "  push_back : " \o FormatDouble(pd.PushBackTimeMs) \o " ms",
       "  sort      : " \o FormatDouble(pd.SortTimeMs) \o " ms",
       "" >>

\* Swap that copies the element at b over the one at a and loses the latter.
SwapOverwriting(s, a, b) ==
    [k \in 1..Len(s) |-> IF k = a THEN s[b] ELSE s[k]]

\* s with its elements at positions a and b exchanged (std::swap).
Swap(s, a, b) ==
    [k \in 1..Len(s) |-> IF k = a THEN s[b] ELSE IF k = b THEN s[a] ELSE s[k]]

\* What main and the runner leave alone between the statements of main.
RunnerIdle ==
    UNCHANGED <<arg_ptrs, description, rv, start, finish, push_back_time_ms,
                sort_time_ms, perf_data, calls, readings>>
TimerIdle == UNCHANGED <<qpc, qpf, faults, timerFailed>>
DataIdle == UNCHANGED <<n, v, shuffled, pv, shuffled_ptrs>>

\* main, lines 122-127: the banner.
Banner ==
    /\ pc = "banner"
    /\ out' = out \o BannerLines
    /\ pc' = "corpus"
    /\ i' = 0
    /\ v' = <<>>
    /\ UNCHANGED <<exitCode, win64, n, shuffled, pv, shuffled_ptrs, run>>
    /\ RunnerIdle /\ TimerIdle

\* main, lines 138-141: one iteration of the loop that builds the strings.
CorpusPush ==
    /\ pc = "corpus"
    /\ i < n
    /\ v' = Append(v, CorpusElement(i))
    /\ i' = i + 1
    /\ UNCHANGED <<pc, out, exitCode, win64, n, shuffled, pv, shuffled_ptrs, run>>
    /\ RunnerIdle /\ TimerIdle

\* main, lines 144-145: the loop is over; std::shuffle begins with the
\* element at index 1.
ShuffleBegin ==
    /\ pc = "corpus"
    /\ i >= n
    /\ pc' = "shuffle"
    /\ i' = 1
    /\ UNCHANGED <<out, exitCode, win64, n, v, shuffled, pv, shuffled_ptrs, run>>
    /\ RunnerIdle /\ TimerIdle

\* One step of std::shuffle: the element at index i is exchanged with the
\* one at an index the generator draws from 0..i.
ShuffleStep ==
    /\ pc = "shuffle"
    /\ i < Len(v)
    /\ \E off \in 0..i : v' = Swap(v, i + 1, off + 1)
    /\ i' = i + 1
    /\ UNCHANGED <<pc, out, exitCode, win64, n, shuffled, pv, shuffled_ptrs, run>>
    /\ RunnerIdle /\ TimerIdle

\* main, lines 147-148: the lambda returns v, which becomes shuffled.
ShuffleReturn ==
    /\ pc = "shuffle"
    /\ i >= Len(v)
    /\ shuffled' = v
    /\ v' = <<>>
    /\ pc' = "ptrs"
    /\ i' = 0
    /\ pv' = <<>>
    /\ UNCHANGED <<out, exitCode, win64, n, shuffled_ptrs, run>>
    /\ RunnerIdle /\ TimerIdle

\* main, lines 157-160: one iteration of the loop that takes the pointers.
PtrsPush ==
    /\ pc = "ptrs"
    /\ i < Len(shuffled)
    /\ pv' = Append(pv, i + 1)
    /\ i' = i + 1
    /\ UNCHANGED <<pc, out, exitCode, win64, n, v, shuffled, shuffled_ptrs, run>>
    /\ RunnerIdle /\ TimerIdle

\* main, lines 162-163: the lambda returns v, which becomes shuffled_ptrs.
PtrsReturn ==
    /\ pc = "ptrs"
    /\ i >= Len(shuffled)
    /\ shuffled_ptrs' = pv
    /\ pv' = <<>>
    /\ pc' = "call"
    /\ run' = 1
    /\ UNCHANGED <<out, exitCode, win64, n, i, v, shuffled>>
    /\ RunnerIdle /\ TimerIdle

\* main, lines 169-174: the next benchmark statement calls the runner, which
\* copies shuffled_ptrs into its parameter and builds its locals
\* (runner, lines 88-94).
Call ==
    /\ pc = "call"
    /\ run <= Len(Runs)
    /\ arg_ptrs' = shuffled_ptrs
    /\ description' = Runs[run][2]
    /\ start' = 0
    /\ finish' = 0
    /\ rv' = <<>>
    /\ calls' = Append(calls, Runs[run])
    /\ readings' = <<>>
    /\ pc' = "start1"
    /\ UNCHANGED <<out, exitCode, win64, i, run, push_back_time_ms,
                   sort_time_ms, perf_data>>
    /\ DataIdle /\ TimerIdle

\* runner, line 99: start = Counter(); the loop of line 100 begins.
ReadStart1 ==
    /\ pc = "start1"
    /\ \E o \in CounterOutcomes :
          /\ start' = o.value
          /\ qpc' = o.qpc
          /\ readings' = Append(readings, o.value)
          /\ AfterQuery(o)
    /\ i' = 0
    /\ pc' = "push"
    /\ UNCHANGED <<out, exitCode, win64, run, arg_ptrs, description, rv, finish,
                   push_back_time_ms, sort_time_ms, perf_data, qpf, calls>>
    /\ DataIdle

\* runner, lines 100-103: one iteration, v.push_back(ptr).
PushBack ==
    /\ pc = "push"
    /\ i < Len(arg_ptrs)
    /\ rv' = Append(rv, StringFromPtr(arg_ptrs[i + 1]))
    /\ i' = i + 1
    /\ UNCHANGED <<pc, out, exitCode, win64, run, arg_ptrs, description, start,
                   finish, push_back_time_ms, sort_time_ms, perf_data, calls,
                   readings>>
    /\ DataIdle /\ TimerIdle

\* runner, line 104: the loop is over; finish = Counter().
ReadFinish1 ==
    /\ pc = "push"
    /\ i >= Len(arg_ptrs)
    /\ \E o \in CounterOutcomes :
          /\ finish' = o.value
          /\ qpc' = o.qpc
          /\ readings' = Append(readings, o.value)
          /\ AfterQuery(o)
    /\ pc' = "ms1"
    /\ UNCHANGED <<out, exitCode, win64, i, run, arg_ptrs, description, rv, start,
                   push_back_time_ms, sort_time_ms, perf_data, qpf, calls>>
    /\ DataIdle

\* runner, line 105: push_back_time_ms = MillisecondsFromDeltaCounter(start, finish).
PushBackTime ==
    /\ pc = "ms1"
    /\ \E o \in FrequencyOutcomes :
          /\ push_back_time_ms' = MillisecondsFromDeltaCounter(start, finish, o.value)
          /\ AfterQuery(o)
    /\ pc' = "start2"
    /\ UNCHANGED <<out, exitCode, win64, i, run, arg_ptrs, description, rv, start,
                   finish, sort_time_ms, perf_data, qpc, qpf, calls, readings>>
    /\ DataIdle

\* ReadStart2 that reads the counter into a new variable and leaves the
\* runner's start as the first measurement set it.
ReadStart2KeepsStart ==
    /\ pc = "start2"
    /\ \E o \in CounterOutcomes :
          /\ qpc' = o.qpc
          /\ readings' = Append(readings, o.value)
          /\ AfterQuery(o)
    /\ pc' = "sort"
    /\ UNCHANGED <<out, exitCode, win64, i, run, arg_ptrs, description, rv, start,
                   finish, push_back_time_ms, sort_time_ms, perf_data, qpf, calls>>
    /\ DataIdle

\* runner, line 110: start = Counter().
ReadStart2 ==
    /\ pc = "start2"
    /\ \E o \in CounterOutcomes :
          /\ start' = o.value
          /\ qpc' = o.qpc
          /\ readings' = Append(readings, o.value)
          /\ AfterQuery(o)
    /\ pc' = "sort"
    /\ UNCHANGED <<out, exitCode, win64, i, run, arg_ptrs, description, rv, finish,
                   push_back_time_ms, sort_time_ms, perf_data, qpf, calls>>
    /\ DataIdle

\* Sort sorting the caller's pointers along with the container, as it would
\* with the vector taken by non-const reference and sorted in place.
SortCallersVector ==
    /\ pc = "sort"
    /\ rv' = StdSort(Strategy, rv)
    /\ shuffled_ptrs' =
           [k \in 1..Len(shuffled_ptrs) |-> Len(shuffled_ptrs) + 1 - k]
    /\ arg_ptrs' = shuffled_ptrs'
    /\ pc' = "finish2"
    /\ UNCHANGED <<out, exitCode, win64, i, run, description, start,
                   finish, push_back_time_ms, sort_time_ms, perf_data, calls,
                   readings, n, v, shuffled, pv>>
    /\ TimerIdle

\* runner, line 111: sort(v.begin(), v.end()).
Sort ==
    /\ pc = "sort"
    /\ rv' = StdSort(Strategy, rv)
    /\ pc' = "finish2"
    /\ UNCHANGED <<out, exitCode, win64, i, run, arg_ptrs, description, start,
                   finish, push_back_time_ms, sort_time_ms, perf_data, calls,
                   readings>>
    /\ DataIdle /\ TimerIdle

\* runner, line 112: finish = Counter().
ReadFinish2 ==
    /\ pc = "finish2"
    /\ \E o \in CounterOutcomes :
          /\ finish' = o.value
          /\ qpc' = o.qpc
          /\ readings' = Append(readings, o.value)
          /\ AfterQuery(o)
    /\ pc' = "ms2"
    /\ UNCHANGED <<out, exitCode, win64, i, run, arg_ptrs, description, rv, start,
                   push_back_time_ms, sort_time_ms, perf_data, qpf, calls>>
    /\ DataIdle

\* runner, line 113: sort_time_ms = MillisecondsFromDeltaCounter(start, finish).
SortTime ==
    /\ pc = "ms2"
    /\ \E o \in FrequencyOutcomes :
          /\ sort_time_ms' = MillisecondsFromDeltaCounter(start, finish, o.value)
          /\ AfterQuery(o)
    /\ pc' = "return"
    /\ UNCHANGED <<out, exitCode, win64, i, run, arg_ptrs, description, rv, start,
                   finish, push_back_time_ms, perf_data, qpc, qpf, calls, readings>>
    /\ DataIdle

\* runner, lines 115-116: the PerfData is returned and the runner's vector
\* and parameter are destroyed.
Return ==
    /\ pc = "return"
    /\ perf_data' = PerfData(push_back_time_ms, sort_time_ms, description)
    /\ rv' = <<>>
    /\ arg_ptrs' = <<>>
    /\ pc' = "print"
    /\ UNCHANGED <<out, exitCode, win64, i, run, description, start, finish,
                   push_back_time_ms, sort_time_ms, calls, readings>>
    /\ DataIdle /\ TimerIdle

\* PrintTime(perf_data), lines 71-76, and main goes on to its next statement.
PrintTime ==
    /\ pc = "print"
    /\ out' = out \o PrintTimeLines(perf_data)
    /\ run' = run + 1
    /\ pc' = "call"
    /\ UNCHANGED <<exitCode, win64, i>>
    /\ RunnerIdle /\ DataIdle /\ TimerIdle

\* MainReturn that may leave main with its last statement still to run.
MainReturnEarly ==
    /\ pc = "call"
    /\ run >= Len(Runs)
    /\ exitCode' = 0
    /\ pc' = "done"
    /\ UNCHANGED <<out, win64, i, run>>
    /\ RunnerIdle /\ DataIdle /\ TimerIdle

\* main, line 175: main runs off its end, which returns 0.
MainReturn ==
    /\ pc = "call"
    /\ run > Len(Runs)
    /\ exitCode' = 0
    /\ pc' = "done"
    /\ UNCHANGED <<out, win64, i, run>>
    /\ RunnerIdle /\ DataIdle /\ TimerIdle

\* A push_back or a vector copy throws std::bad_alloc, which nothing catches:
\* std::terminate calls abort, and the process ends with abort's exit code.
BadAlloc ==
    /\ "alloc" \in faults
    /\ \/ pc \in {"corpus", "ptrs"} /\ i < n
       \/ pc = "push" /\ i < Len(arg_ptrs)
       \/ pc = "call" /\ run <= Len(Runs)
    /\ pc' = "aborted"
    /\ exitCode' = 3
    /\ UNCHANGED <<out, win64, i, run, qpc, qpf, faults, timerFailed>>
    /\ RunnerIdle /\ DataIdle

(***************************************************************************)
(* Specifications.                                                         *)
(***************************************************************************)
\* The state main starts in, but for the variables the specifications choose.
Fresh ==
    /\ out = <<>>
    /\ exitCode = 0 - 1
    /\ i = 0
    /\ v = <<>>
    /\ pv = <<>>
    /\ arg_ptrs = <<>>
    /\ description = ""
    /\ rv = <<>>
    /\ push_back_time_ms = DoubleZero
    /\ sort_time_ms = DoubleZero
    /\ perf_data = PerfData(DoubleZero, DoubleZero, "")
    /\ qpc = 0
    /\ timerFailed = FALSE
    /\ calls = <<>>
    /\ readings = <<>>

\* The program from its start, in a 64-bit build.
Start ==
    /\ Fresh
    /\ win64 = TRUE
    /\ pc = "banner"
    /\ n = CorpusSize
    /\ shuffled = <<>>
    /\ shuffled_ptrs = <<>>
    /\ run = 0
    /\ start = 0
    /\ finish = 0
    /\ qpf \in Frequencies

Init == Start /\ faults = {}

Program ==
    \/ Banner \/ CorpusPush \/ ShuffleBegin \/ ShuffleStep \/ ShuffleReturn
    \/ PtrsPush \/ PtrsReturn \/ Call \/ ReadStart1 \/ PushBack \/ ReadFinish1
    \/ PushBackTime \/ ReadStart2 \/ Sort \/ ReadFinish2 \/ SortTime \/ Return
    \/ PrintTime \/ MainReturn

Next == Program

\* Normal operation: every query of the timer succeeds and no allocation fails.
Spec == Init /\ [][Next]_vars

\* The program is one thread that nothing suspends: it takes its next step.
LiveSpec == Spec /\ WF_vars(Next)

\* Operation in an environment that may fail one query of the timer, and any
\* allocation.
FaultInit == Start /\ faults = {"timer", "alloc"}
FaultNext == Program \/ BadAlloc
FaultSpec == FaultInit /\ [][FaultNext]_vars

\* The banner and the corpus loop alone, in either build and for every loop
\* bound up to MaxCorpus.
GenInit ==
    /\ Fresh
    /\ win64 \in BOOLEAN
    /\ pc = "banner"
    /\ n \in 0..MaxCorpus
    /\ shuffled = <<>>
    /\ shuffled_ptrs = <<>>
    /\ run = 0
    /\ start = 0
    /\ finish = 0
    /\ qpf \in Frequencies
    /\ faults = {}
GenNext == Banner \/ CorpusPush \/ ShuffleBegin
GenSpec == GenInit /\ [][GenNext]_vars

\* Strings for the runner's input that differ in length, share prefixes and
\* repeat: "#2", "#0", "#10", "#1".
SampleStrings ==
    <<CorpusElement(2), CorpusElement(0), CorpusElement(10), CorpusElement(1)>>

\* Every sequence of at most MaxInputLen pointers into s.
PointerVectors(s) ==
    UNION {[1..len -> 1..Len(s)] : len \in 0..MaxInputLen}

\* One invocation of the runner, for either StringT, on every vector of
\* pointers to the sample strings of length up to MaxInputLen.
RunnerInit ==
    /\ Fresh
    /\ win64 = TRUE
    /\ pc = "call"
    /\ n = Len(SampleStrings)
    /\ shuffled = SampleStrings
    /\ shuffled_ptrs \in PointerVectors(SampleStrings)
    /\ run \in {1, 2}
    /\ start = 0
    /\ finish = 0
    /\ qpf \in Frequencies
    /\ faults = {}
RunnerNext ==
    \/ Call \/ ReadStart1 \/ PushBack \/ ReadFinish1 \/ PushBackTime
    \/ ReadStart2 \/ Sort \/ ReadFinish2 \/ SortTime \/ Return
RunnerSpec == RunnerInit /\ [][RunnerNext]_vars

\* The frequencies and counter values the conversion is tried on.
TimerFrequencies == {1, 3, 7, 1000}
TimerTicks == (0..MaxTick) \cup TimerFrequencies

\* The conversion of line 105 alone, on every pair of counter values and
\* every frequency.
TimerInit ==
    /\ Fresh
    /\ win64 = TRUE
    /\ pc = "ms1"
    /\ n = 0
    /\ shuffled = <<>>
    /\ shuffled_ptrs = <<>>
    /\ run = 1
    /\ start \in TimerTicks
    /\ finish \in TimerTicks
    /\ qpf \in TimerFrequencies
    /\ faults = {}
TimerNext == PushBackTime
TimerSpec == TimerInit /\ [][TimerNext]_vars

(***************************************************************************)
(* Notions the properties are stated in.                                   *)
(***************************************************************************)
\* The positions of main before the data is built, and inside the runner.
BuildingPcs == {"banner", "corpus", "shuffle", "ptrs"}
RunnerPcs == {"start1", "push", "ms1", "start2", "sort", "finish2", "ms2", "return"}

\* The number of reports on standard output: what follows the banner, four
\* lines a report.
ReportCount == (Len(out) - Len(BannerLines)) \div 4

\* Line j (1..4) of report k.
ReportLine(k, j) == out[Len(BannerLines) + 4 * (k - 1) + j]

\* The invocation main is expected to make as its k-th: the strategies
\* alternate, and the label is the strategy and its iteration.
ExpectedCall(k) ==
    LET strategy == IF k % 2 = 1 THEN "ATL" ELSE "STL"
    IN  <<strategy, strategy \o NatText((k + 1) \div 2)>>

\* a <= b in the lexicographic order of code units.
LexLeq(a, b) ==
    \/ Len(a) <= Len(b) /\ \A j \in 1..Len(a) : a[j] = b[j]
    \/ \E j \in 1..Len(a) :
          /\ j <= Len(b)
          /\ a[j] < b[j]
          /\ \A h \in 1..(j - 1) : a[h] = b[h]

\* The number of positions of s that hold x.
Occurrences(s, x) == Cardinality({k \in 1..Len(s) : s[k] = x})

\* s and t hold the same elements, each as often.
SameMultiset(s, t) ==
    /\ Len(s) = Len(t)
    /\ \A k \in 1..Len(s) : Occurrences(s, s[k]) = Occurrences(t, s[k])

\* The texts the runner's parameter refers to, in its order.
ReferencedTexts == [k \in 1..Len(arg_ptrs) |-> shuffled[arg_ptrs[k]]]

RECURSIVE DecimalValue(_)
\* The number a sequence of decimal digits denotes.
DecimalValue(t) ==
    IF t = <<>> THEN 0
    ELSE 10 * DecimalValue(SubSeq(t, 1, Len(t) - 1)) + (t[Len(t)] - 48)

\* t is the decimal text of k: digits only, no leading zero, of value k.
IsDecimalOf(t, k) ==
    /\ Len(t) >= 1
    /\ \A j \in 1..Len(t) : t[j] \in 48..57
    /\ (Len(t) > 1 => t[1] # 48)
    /\ DecimalValue(t) = k

\* The double d is the fraction a/b, for b > 0.
IsFraction(d, a, b) ==
    /\ d.den > 0
    /\ d.num * b = Abs(a) * d.den
    /\ (a # 0 => d.neg = (a < 0))

(***************************************************************************)
(* Properties.                                                             *)
(***************************************************************************)
\* C1: main invokes the runner six times, the strategies alternating (ATL1,
\* STL1, ATL2, STL2, ATL3, STL3); while an invocation runs, every earlier
\* result and no other has been printed; between invocations every result
\* has been printed; the labels printed are those of the invocations, in
\* their order, each once; and main ends after the sixth.
C1_SixRunsEachPrinted ==
    /\ Len(calls) <= 6
    /\ \A k \in 1..Len(calls) : calls[k] = ExpectedCall(k)
    /\ (pc \in BuildingPcs => calls = <<>>)
    /\ (pc \in RunnerPcs \cup {"print"} => ReportCount = Len(calls) - 1)
    /\ (pc \in {"call", "done"} => ReportCount = Len(calls))
    /\ (pc \notin {"banner"} => Len(out) = Len(BannerLines) + 4 * ReportCount)
    /\ (pc \notin {"banner"} =>
           \A k \in 1..ReportCount : ReportLine(k, 1) = calls[k][2] \o ":")
    /\ (pc = "done" => Len(calls) = 6)

\* C1's case: main has ended with six invocations made and six reports out.
C1_Witness ==
    /\ pc = "done"
    /\ Len(calls) = 6
    /\ ReportCount = 6
    /\ ReportLine(6, 1) = "STL3:"

\* C2: after the sort step the runner's container is in non-decreasing
\* lexicographic order of code units and holds the same multiset of strings
\* as the texts its input refers to, for either strategy; the input
\* ["#2", "#0", "#1"] gives ["#0", "#1", "#2"].
C2_SortedSameElements ==
    pc \in {"finish2", "ms2", "return"} =>
        /\ \A k \in 1..(Len(rv) - 1) : LexLeq(rv[k], rv[k + 1])
        /\ SameMultiset(rv, ReferencedTexts)
        /\ (ReferencedTexts = <<<<35, 50>>, <<35, 48>>, <<35, 49>>>> =>
                rv = <<<<35, 48>>, <<35, 49>>, <<35, 50>>>>)

\* C2's case: the sort has run on ["#2", "#10", "#2"], where the order by
\* code units differs from the order by number and an element repeats.
C2_Witness ==
    /\ pc = "finish2"
    /\ ReferencedTexts = <<<<35, 50>>, <<35, 49, 48>>, <<35, 50>>>>
    /\ rv = <<<<35, 49, 48>>, <<35, 50>>, <<35, 50>>>>

\* C3: once shuffled and shuffled_ptrs are built no step changes them, the
\* runner's in-place sort included, and the parameter of every invocation
\* equals shuffled_ptrs from its entry to its return.
C3_InputNeverModified ==
    [][/\ (pc \notin BuildingPcs =>
              shuffled' = shuffled /\ shuffled_ptrs' = shuffled_ptrs)
       /\ (pc' \in RunnerPcs => arg_ptrs' = shuffled_ptrs')]_vars

\* C3's case: the sixth invocation has sorted its container into another
\* order than its input's.
C3_Witness ==
    /\ pc = "finish2"
    /\ run = 6
    /\ rv # ReferencedTexts
    /\ arg_ptrs = shuffled_ptrs
    /\ Len(shuffled) = n

\* C4: once a query of the counter or of the frequency has failed, nothing
\* more is printed: no report follows a failed query.
C4_NoReportAfterTimerFailure ==
    [][timerFailed => out' = out]_vars

\* C5: when the corpus loop is over and the shuffle has not begun, the vector
\* holds n strings, pairwise distinct, and the one at index k is '#' followed
\* by the decimal text of k; during the loop it holds the first i of them.
C5_CorpusIsHashAndIndex ==
    /\ (pc = "corpus" => Len(v) = i)
    /\ (pc = "shuffle" /\ i = 1 => Len(v) = n)
    /\ (pc = "corpus" \/ (pc = "shuffle" /\ i = 1) =>
           /\ \A k \in 0..(Len(v) - 1) :
                 /\ v[k + 1][1] = 35
                 /\ IsDecimalOf(Tail(v[k + 1]), k)
           /\ \A j, k \in 1..Len(v) : j # k => v[j] # v[k])

\* C5's case: a loop of more than ten iterations is over, so that indices of
\* one and of two digits have been converted.
C5_Witness ==
    /\ pc = "shuffle"
    /\ i = 1
    /\ n > 10
    /\ Len(v) = n
    /\ v[11] = <<35, 49, 48>>

\* C6: the shuffled corpus holds the same multiset of strings as the corpus
\* built ('#' and the index, for the indices below n), and shuffled_ptrs is
\* as long as shuffled and its k-th pointer points to the buffer of
\* shuffled[k], which holds the text of shuffled[k].
C6_ShuffleIsPermutationViewParallel ==
    /\ (pc = "shuffle" =>
           SameMultiset(v, [k \in 1..n |-> <<35>> \o to_wstring(k - 1)]))
    /\ (pc \notin {"banner", "corpus", "shuffle"} =>
           SameMultiset(shuffled, [k \in 1..n |-> <<35>> \o to_wstring(k - 1)]))
    /\ (pc \notin BuildingPcs =>
           /\ Len(shuffled_ptrs) = Len(shuffled)
           /\ \A k \in 1..Len(shuffled) :
                 /\ Buffer(shuffled_ptrs[k]) = shuffled[k] \o <<0>>
                 /\ StringFromPtr(shuffled_ptrs[k]) = shuffled[k])

\* C6's case: the data is built and the shuffle has moved every element.
C6_Witness ==
    /\ pc = "call"
    /\ Len(shuffled) = n
    /\ \A k \in 1..n : shuffled[k] # <<35>> \o to_wstring(k - 1)
    /\ Len(shuffled_ptrs) = n

\* C7: in normal operation the program ends: it reaches the end of main,
\* where it stays, with exit code 0, six invocations made, the last one
\* returned and its container destroyed, and six reports printed.
C7_TerminatesWithZero ==
    <>(/\ pc = "done"
       /\ exitCode = 0
       /\ Len(calls) = 6
       /\ ReportCount = 6
       /\ perf_data.Description = "STL3"
       /\ rv = <<>>)

\* C7's case: main has returned.
C7_Witness ==
    /\ pc = "done"
    /\ exitCode = 0
    /\ run = 7

\* C8: the conversion gives (finish - start) * 1000 / frequency; for a
\* positive frequency and finish >= start it is not negative; and from 0 to
\* the frequency it is 1000.
C8_Milliseconds ==
    pc = "start2" /\ qpf > 0 =>
        /\ IsFraction(push_back_time_ms, (finish - start) * 1000, qpf)
        /\ (finish >= start => ~push_back_time_ms.neg)
        /\ (start = 0 /\ finish = qpf =>
                push_back_time_ms = [neg |-> FALSE, num |-> 1000, den |-> 1])

\* C8's case: the conversion has been applied to 0 and the frequency, for a
\* frequency that does not divide 1000.
C8_Witness ==
    /\ pc = "start2"
    /\ qpf = 7
    /\ start = 0
    /\ finish = 7
    /\ push_back_time_ms.num = 1000

\* C9: PrintTime appends to standard output the label and ':', the push_back
\* line with the sample's insertion time, the sort line with its sort time
\* and an empty line, in this order and nothing else; the sample is the one
\* the runner built from its two times and the label it was passed; and
\* PrintTime leaves the sample as it is.
C9_PrintTimeWritesSample ==
    [][pc = "print" =>
          /\ perf_data.Description = calls[Len(calls)][2]
          /\ perf_data.PushBackTimeMs = push_back_time_ms
          /\ perf_data.SortTimeMs = sort_time_ms
          /\ out' = out \o
                 << calls[Len(calls)][2] \o ":",
                    "  push_back : " \o FormatDouble(push_back_time_ms) \o " ms",
                    "  sort      : " \o FormatDouble(sort_time_ms) \o " ms",
                    "" >>
          /\ perf_data' = perf_data]_vars

\* C9's case: a report has been printed for a sample whose two times differ.
C9_Witness ==
    /\ pc = "call"
    /\ run = 2
    /\ perf_data.PushBackTimeMs # perf_data.SortTimeMs
    /\ ReportLine(1, 1) = "ATL1:"
    /\ ReportLine(1, 2) = "  push_back : 333.333 ms"
    /\ ReportLine(1, 3) = "  sort      : 0 ms"
    /\ ReportLine(1, 4) = ""

\* C10: in an invocation the container starts empty, reading 1 is taken
\* before the first append, the references are appended once each in input
\* order, readings 2 and 3 are taken with every reference appended and
\* nothing sorted, the sort follows reading 3, and reading 4 follows the
\* sort; the insertion time is the conversion of readings 1 and 2 and the
\* sort time that of readings 3 and 4.
C10_RunnerOrder ==
    /\ (pc = "start1" => rv = <<>> /\ readings = <<>>)
    /\ (pc = "push" =>
           /\ Len(readings) = 1
           /\ rv = SubSeq(ReferencedTexts, 1, i))
    /\ (pc \in {"ms1", "start2"} => Len(readings) = 2 /\ rv = ReferencedTexts)
    /\ (pc = "sort" => Len(readings) = 3 /\ rv = ReferencedTexts)
    /\ (pc = "finish2" =>
           /\ Len(readings) = 3
           /\ SameMultiset(rv, ReferencedTexts)
           /\ \A k \in 1..(Len(rv) - 1) : LexLeq(rv[k], rv[k + 1]))
    /\ (pc \in {"ms2", "return"} => Len(readings) = 4)
    /\ (pc \in {"start2", "sort", "finish2", "ms2", "return"} =>
           IsFraction(push_back_time_ms, (readings[2] - readings[1]) * 1000, qpf))
    /\ (pc = "return" =>
           IsFraction(sort_time_ms, (readings[4] - readings[3]) * 1000, qpf))

\* C10's case: an invocation is about to return with the counter having
\* advanced during the appends and again during the sort.
C10_Witness ==
    /\ pc = "return"
    /\ Len(readings) = 4
    /\ readings[2] > readings[1]
    /\ readings[3] = readings[2]
    /\ readings[4] > readings[3]
    /\ rv # ReferencedTexts

=============================================================================
